---------------------------- MODULE Spec2Model ----------------------------
(***************************************************************************)
(* READMeth (epistate_plus.py): the read-based EM engine that estimates    *)
(* cell-type proportions (alpha) from methylation reads grouped in         *)
(* windows.                                                                *)
(*                                                                         *)
(* Numbers.  The program computes in float64.  TLC has 32-bit integers     *)
(* only, so a float is modelled as a fixed-point number: the integer v     *)
(* stands for v / SCALE.  Every stored array (alpha, mu, z, the per-read   *)
(* likelihoods) is rounded down to that grid, as float64 rounds to its     *)
(* own grid; equalities that hold "within floating tolerance" in the       *)
(* program hold within a few grid units here.  The log-domain arrays of    *)
(* the program (log_x_given_H, log_Lt, ...) are held by their              *)
(* exponentials: logsumexp of logs is the log of the sum, so calc_mu is    *)
(* modelled by the sums and products it computes.  NaN and inf are not     *)
(* modelled; the inputs are drawn so that no 0/0 arises (theta and         *)
(* lambda strictly inside (0,1) after the pseudocount, alpha non-negative  *)
(* with a positive sum).                                                   *)
(***************************************************************************)
EXTENDS Integers, Sequences, FiniteSets, TLC

VARIABLES
    mixtures, lambda_t, theta_high, theta_low,  \* the caller's arrays
    num_iterations, convergence_criteria,       \* the caller's settings
    alpha_arg,                                  \* the alpha argument, or None
    self,                                       \* the READMeth object
    mu, new_alpha, i,                           \* locals of em()
    pc,                                         \* position in __init__/em
    ret,                                        \* what em() returned
    hist,                                       \* history of the current em()
    run, ret1,                                  \* which run this is, run 1's result
    sh                                          \* shapes (SpecShape only)

callerVars == <<mixtures, lambda_t, theta_high, theta_low,
                num_iterations, convergence_criteria, alpha_arg>>
vars == <<mixtures, lambda_t, theta_high, theta_low, num_iterations,
          convergence_criteria, alpha_arg, self, mu, new_alpha, i, pc,
          ret, hist, run, ret1, sh>>

-----------------------------------------------------------------------------
(* Bounds of the model *)

\* grid units per 1.0
SCALE == 100
\* largest num_iterations tried
MaxIter == 3
\* largest number of windows handed to the engine
MaxWindows == 2

-----------------------------------------------------------------------------
(* Values *)

\* Python's None, held as the empty tuple
None == <<>>
NOVAL == "N"
METHYLATED == "M"
UNMETHYLATED == "U"

\* READMeth.pseudocount (1e-10): the smallest positive number of the grid
pseudocount == 1

RECURSIVE SeqSum(_)
SeqSum(s) == IF s = <<>> THEN 0 ELSE Head(s) + SeqSum(Tail(s))

Abs(v) == IF v < 0 THEN -v ELSE v

\* a / b on the grid
Div(a, b) == (a * SCALE) \div b

\* np.mean of a vector
Mean(v) == SeqSum(v) \div Len(v)

-----------------------------------------------------------------------------
(* __init__ and its helpers *)

\* line 24: (~(x == NOVAL)).any()
Informative(win) ==
    \E r \in DOMAIN win : \E j \in DOMAIN win[r] : win[r][j] # NOVAL

\* mutant: .all() for .any()
x_c_v_of_All(xs) ==
    [w \in DOMAIN xs |->
        \A r \in DOMAIN xs[w] : \A j \in DOMAIN xs[w][r] : xs[w][r][j] # NOVAL]

\* line 24, over the windows
x_c_v_of(xs) == [w \in DOMAIN xs |-> Informative(xs[w])]

\* numpy boolean-mask indexing arr[mask]: the entries whose mask is True,
\* in order
RECURSIVE FilterByMask(_, _)
FilterByMask(arr, mask) ==
    IF arr = <<>> THEN <<>>
    ELSE (IF Head(mask) THEN <<Head(arr)>> ELSE <<>>)
         \o FilterByMask(Tail(arr), Tail(mask))

\* arr[arr==1] -= pseudocount; arr[arr==0] += pseudocount, on one element
PseudoElem(v) ==
    IF v = SCALE THEN v - pseudocount
    ELSE IF v = 0 THEN v + pseudocount
    ELSE v

add_pseudocounts(list_of_arrays) ==
    [w \in DOMAIN list_of_arrays |->
        [t \in DOMAIN list_of_arrays[w] |-> PseudoElem(list_of_arrays[w][t])]]

\* P(read | prob): the product over the sites of prob (methylated call),
\* 1 - prob (unmethylated call) or 1 (no call); exp of one entry of
\* matmul(x_c_m, log_prob) + matmul(x_c_u, log_one_minus_prob)
RECURSIVE ReadProb(_, _)
ReadProb(read, prob) ==
    IF read = <<>> THEN SCALE
    ELSE LET f == IF Head(read) = METHYLATED THEN Head(prob)
                  ELSE IF Head(read) = UNMETHYLATED THEN SCALE - Head(prob)
                  ELSE SCALE
         IN  (f * ReadProb(Tail(read), Tail(prob))) \div SCALE

calc_x_given_prob(xs, prob) ==
    [w \in DOMAIN xs |-> [r \in DOMAIN xs[w] |-> ReadProb(xs[w][r], prob[w])]]

NoEngine ==
    [x |-> <<>>, x_c_v |-> <<>>, Lt |-> <<>>, thetaH |-> <<>>, thetaL |-> <<>>,
     c |-> 0, m |-> 0, t |-> 0, alpha |-> None,
     x_given_H |-> <<>>, x_given_L |-> <<>>, z |-> <<>>,
     num_iterations |-> 0, convergence_criteria |-> 0]

\* the object __init__ builds (lines 23-42) from the caller's arrays, lam
\* being lambda_t after add_pseudocounts
Engine(lam) ==
    LET mask == x_c_v_of(mixtures)
        xs   == FilterByMask(mixtures, mask)
        thH  == FilterByMask(theta_high, mask)
        thL  == FilterByMask(theta_low, mask)
        Lts  == FilterByMask(lam, mask)
    IN  [x |-> xs, x_c_v |-> mask, Lt |-> Lts, thetaH |-> thH, thetaL |-> thL,
         c |-> SeqSum([w \in DOMAIN xs |-> Len(xs[w])]),
         m |-> SeqSum([w \in DOMAIN xs |-> Len(xs[w][1])]),
         t |-> Len(Lts[1]),
         alpha |-> alpha_arg,
         x_given_H |-> calc_x_given_prob(xs, thH),
         x_given_L |-> calc_x_given_prob(xs, thL),
         z |-> <<>>,
         num_iterations |-> num_iterations,
         convergence_criteria |-> convergence_criteria]

-----------------------------------------------------------------------------
(* The steps of em() *)

\* np.random.uniform(size=t): the draws tried
RandDraws == {<<50, 50>>, <<90, 30>>, <<10, 70>>, <<60, 20, 90>>, <<5, 35, 10>>}

\* alpha /= np.sum(alpha)
Normalize(v) == [t \in DOMAIN v |-> Div(v[t], SeqSum(v))]

\* mutant: alpha is drawn even when one was supplied
init_alpha_AlwaysDraws(alpha, t) ==
    {Normalize(d) : d \in {e \in RandDraws : Len(e) = t}}

\* init_alpha: the values self.alpha may hold afterwards.  A supplied alpha
\* is kept as it is; otherwise t uniform draws are normalised
init_alpha(alpha, t) ==
    IF alpha = None
    THEN {Normalize(d) : d \in {e \in RandDraws : Len(e) = t}}
    ELSE {alpha}

init_mu_no_log(alpha, Lt, PH, PL) ==
    [w \in DOMAIN Lt |->
        [r \in DOMAIN PH[w] |->
            LET high == PH[w][r] *
                    SeqSum([t \in DOMAIN alpha |-> alpha[t] * Lt[w][t]])
                low  == PL[w][r] *
                    SeqSum([t \in DOMAIN alpha |-> alpha[t] * (SCALE - Lt[w][t])])
            IN  Div(high, high + low)]]

\* mutant: the second term is not weighted by alpha
ZRaw_PriorDropped(mu_win, Lt_win, alpha) ==
    [t \in DOMAIN alpha |->
        [r \in DOMAIN mu_win |->
            mu_win[r] * Lt_win[t] * alpha[t]
            + (SCALE - mu_win[r]) * (SCALE - Lt_win[t]) * SCALE]]

\* z_win before the column normalisation, in units of 1/SCALE^3
ZRaw(mu_win, Lt_win, alpha) ==
    [t \in DOMAIN alpha |->
        [r \in DOMAIN mu_win |->
            mu_win[r] * Lt_win[t] * alpha[t]
            + (SCALE - mu_win[r]) * (SCALE - Lt_win[t]) * alpha[t]]]

\* mutant: normalised along axis 1, over the reads
ColNormalize_Axis1(zw) ==
    [t \in DOMAIN zw |->
        [r \in DOMAIN zw[t] |-> Div(zw[t][r], SeqSum(zw[t]))]]

\* z_win / np.sum(z_win, axis=0)
ColNormalize(zw) ==
    [t \in DOMAIN zw |->
        [r \in DOMAIN zw[t] |->
            Div(zw[t][r], SeqSum([u \in DOMAIN zw |-> zw[u][r]]))]]

calc_z(mus, alpha, Lt) ==
    [w \in DOMAIN Lt |-> ColNormalize(ZRaw(mus[w], Lt[w], alpha))]

\* np.sum(np.hstack(z), axis=1) / self.c, then new_alpha /= np.sum(new_alpha)
maximization(z, c) ==
    LET T == Len(z[1])
        tot == [t \in 1..T |->
                   SeqSum([w \in DOMAIN z |-> SeqSum(z[w][t])]) \div c]
    IN  Normalize(tot)

calc_mu(z, Lt, PH, PL) ==
    [w \in DOMAIN Lt |->
        [r \in DOMAIN PH[w] |->
            LET high == PH[w][r] *
                    SeqSum([t \in DOMAIN z[w] |-> Lt[w][t] * z[w][t][r]])
                low  == PL[w][r] *
                    SeqSum([t \in DOMAIN z[w] |-> (SCALE - Lt[w][t]) * z[w][t][r]])
            IN  Div(high, high + low)]]

test_convergence(na, alpha, crit) ==
    LET alpha_diff ==
            Div(Mean([t \in DOMAIN alpha |-> Abs(na[t] - alpha[t])]),
                Mean([t \in DOMAIN alpha |-> Abs(alpha[t])]))
    IN  alpha_diff < crit


\* mutant: the test is evaluated in every iteration
TestApplied_Always(k) == TRUE

\* `if i and ...` (line 159): the test is evaluated only when i is non-zero
TestApplied(k) == k # 0

\* mutant: the candidate is committed before the break
AlphaOnBreak_Commits(alpha, na) == na

\* `break` (line 160) leaves self.alpha as it was; new_alpha is dropped
AlphaOnBreak(alpha, na) == alpha

\* mutant: one iteration too many
HasNext_OffByOne(k, n) == k + 1 <= n

\* range(num_iterations) (line 153) has a value after k
HasNext(k, n) == k + 1 < n

-----------------------------------------------------------------------------
(* The inputs tried *)

\* a window is a matrix of calls, reads by sites; the third has no call at
\* all, the last has a read without a call among reads with calls
Windows ==
    { << <<METHYLATED, METHYLATED>>, <<UNMETHYLATED, UNMETHYLATED>> >>,
      << <<METHYLATED>> >>,
      << <<NOVAL, NOVAL>>, <<NOVAL, NOVAL>> >>,
      << <<UNMETHYLATED, METHYLATED>>, <<NOVAL, NOVAL>>,
         <<METHYLATED, NOVAL>> >> }

\* n hundredths, on the grid
Pct(n) == (n * SCALE) \div 100

LambdaProfiles == {"flat", "hard", "mixed", "three"}

\* the lambda vector of window w, over two cell types or three; "hard" and
\* "three" hold exact 0 and 1
LambdaAt(p, w) ==
    IF p = "flat" THEN <<Pct(90), Pct(10)>>
    ELSE IF p = "hard" THEN (IF w % 2 = 1 THEN <<SCALE, 0>> ELSE <<0, SCALE>>)
    ELSE IF p = "three"
         THEN (IF w % 2 = 1 THEN <<Pct(80), Pct(50), Pct(20)>>
                            ELSE <<Pct(30), SCALE, Pct(60)>>)
    ELSE (IF w % 2 = 1 THEN <<Pct(75), Pct(25)>> ELSE <<Pct(25), Pct(50)>>)

\* theta of window w at site j, different from window to window
ThetaHighAt(w, j) == Pct(80 - 5 * ((w + j) % 3))
ThetaLowAt(w, j) == Pct(20 + 5 * ((w + 2 * j) % 3))

AlphaChoices ==
    { None,
      <<Pct(50), SCALE - Pct(50)>>,
      <<Pct(20), SCALE - Pct(20)>>,
      <<SCALE, 0>>,
      <<2 * SCALE, 3 * SCALE>>,
      <<Pct(20), Pct(30), SCALE - Pct(50)>>,
      <<0, Pct(60), SCALE - Pct(60)>> }

CritChoices == {0, Pct(10), 10 * SCALE}

NoHist ==
    [iters |-> 0, tested |-> {}, stop |-> "none",
     it_alpha |-> <<>>, it_mu |-> <<>>, alpha0 |-> <<>>]

\* SpecShape's variable, idle in the numeric specifications
ShIdle == [phase |-> "idle"]

InitWith(nWindows) ==
    /\ \E W \in nWindows :
         /\ mixtures \in [1..W -> Windows]
         /\ \E p \in LambdaProfiles :
              lambda_t = [w \in 1..W |-> LambdaAt(p, w)]
         /\ theta_high =
              [w \in 1..W |->
                  [j \in 1..Len(mixtures[w][1]) |-> ThetaHighAt(w, j)]]
         /\ theta_low =
              [w \in 1..W |->
                  [j \in 1..Len(mixtures[w][1]) |-> ThetaLowAt(w, j)]]
    /\ num_iterations \in 0..MaxIter
    /\ convergence_criteria \in CritChoices
    /\ alpha_arg \in {a \in AlphaChoices :
                        a = None \/ Len(a) = Len(lambda_t[1])}
    /\ self = NoEngine
    /\ mu = <<>>
    /\ new_alpha = <<>>
    /\ i = 0
    /\ pc = "new"
    /\ ret = None
    /\ hist = NoHist
    /\ run = 1
    /\ ret1 = None
    /\ sh = ShIdle

Init == InitWith(1..MaxWindows)

-----------------------------------------------------------------------------
(* Actions *)

\* READMeth(mixtures, lambda_t, theta_high, theta_low, num_iterations,
\* convergence_criteria, alpha).  add_pseudocounts writes into the caller's
\* lambda_t.  With no informative window left, self.Lt[0] (line 37) raises.
Construct ==
    /\ pc = "new"
    /\ lambda_t' = add_pseudocounts(lambda_t)
    /\ IF \E w \in DOMAIN mixtures : x_c_v_of(mixtures)[w]
       THEN /\ self' = Engine(lambda_t')
            /\ pc' = "ready"
       ELSE /\ self' = NoEngine
            /\ pc' = "error"
    /\ UNCHANGED <<mixtures, theta_high, theta_low, num_iterations,
                   convergence_criteria, alpha_arg, mu, new_alpha, i, ret,
                   hist, run, ret1, sh>>

\* em(), lines 149-152: init_alpha, init_mu_no_log, ll = [], i = 0
EmStart ==
    /\ pc = "ready"
    /\ \E a \in init_alpha(self.alpha, self.t) :
         /\ self' = [self EXCEPT !.alpha = a]
         /\ mu' = init_mu_no_log(a, self.Lt, self.x_given_H, self.x_given_L)
         /\ hist' = [NoHist EXCEPT !.alpha0 = a]
    /\ i' = 0
    /\ pc' = IF self.num_iterations > 0 THEN "estep" ELSE "return"
    /\ UNCHANGED <<callerVars, new_alpha, ret, run, ret1, sh>>

\* lines 154-155: the log-likelihood is appended to a local list that is
\* never read; self.z = calc_z(mu, self.alpha)
EStep ==
    /\ pc = "estep"
    /\ self' = [self EXCEPT !.z = calc_z(mu, self.alpha, self.Lt)]
    /\ hist' = [hist EXCEPT !.iters = @ + 1, !.it_alpha = self.alpha,
                            !.it_mu = mu]
    /\ pc' = "mstep"
    /\ UNCHANGED <<callerVars, mu, new_alpha, i, ret, run, ret1, sh>>

\* line 156
MStep ==
    /\ pc = "mstep"
    /\ new_alpha' = maximization(self.z, self.c)
    /\ pc' = "mustep"
    /\ UNCHANGED <<callerVars, self, mu, i, ret, hist, run, ret1, sh>>

\* line 157
MuStep ==
    /\ pc = "mustep"
    /\ mu' = calc_mu(self.z, self.Lt, self.x_given_H, self.x_given_L)
    /\ pc' = "decide"
    /\ UNCHANGED <<callerVars, self, new_alpha, i, ret, hist, run, ret1, sh>>

Passes ==
    /\ TestApplied(i)
    /\ test_convergence(new_alpha, self.alpha, self.convergence_criteria)

\* lines 159-160: the test passes, break
Break ==
    /\ pc = "decide"
    /\ Passes
    /\ self' = [self EXCEPT !.alpha = AlphaOnBreak(self.alpha, new_alpha)]
    /\ hist' = [hist EXCEPT !.tested = @ \cup {i}, !.stop = "converged"]
    /\ pc' = "return"
    /\ UNCHANGED <<callerVars, mu, new_alpha, i, ret, run, ret1, sh>>

\* lines 162-163, then the for statement: the next i, or the loop ends
Commit ==
    /\ pc = "decide"
    /\ ~Passes
    /\ self' = [self EXCEPT !.alpha = new_alpha]
    /\ IF HasNext(i, self.num_iterations)
       THEN /\ i' = i + 1
            /\ pc' = "estep"
            /\ hist' = [hist EXCEPT
                          !.tested = IF TestApplied(i) THEN @ \cup {i} ELSE @]
       ELSE /\ i' = i
            /\ pc' = "return"
            /\ hist' = [hist EXCEPT
                          !.tested = IF TestApplied(i) THEN @ \cup {i} ELSE @,
                          !.stop = "exhausted"]
    /\ UNCHANGED <<callerVars, mu, new_alpha, ret, run, ret1, sh>>

\* line 164
Return ==
    /\ pc = "return"
    /\ ret' = <<self.alpha, i>>
    /\ pc' = "done"
    /\ UNCHANGED <<callerVars, self, mu, new_alpha, i, hist, run, ret1, sh>>

Next ==
    \/ Construct
    \/ EmStart
    \/ EStep
    \/ MStep
    \/ MuStep
    \/ Break
    \/ Commit
    \/ Return

Spec == Init /\ [][Next]_vars

\* The caller builds a second engine from the same arrays and settings
\* (lambda_t now as the first __init__ left it) and runs em() again
Rerun ==
    /\ pc = "done"
    /\ run = 1
    /\ run' = 2
    /\ ret1' = ret
    /\ self' = NoEngine
    /\ mu' = <<>>
    /\ new_alpha' = <<>>
    /\ i' = 0
    /\ ret' = None
    /\ hist' = NoHist
    /\ pc' = "new"
    /\ UNCHANGED <<callerVars, sh>>

NextTwice ==
    \/ Next
    \/ Rerun

SpecTwice == Init /\ [][NextTwice]_vars

-----------------------------------------------------------------------------
(* Shapes.  SpecShape follows the array shapes through __init__ and em()    *)
(* with numpy's rules, for arrays whose counts of windows, sites and cell  *)
(* types need not agree.  A shape is the tuple of the dimensions; every    *)
(* window of an array has the same shape, every window holds a call, and   *)
(* theta_high[w], theta_low[w] are vectors over the sites.                 *)

\* the shape of an operation numpy refuses (ValueError, IndexError)
Bad == <<-1>>

Max(a, b) == IF a >= b THEN a ELSE b

\* the shape, padded on the left with 1s to n dimensions
Pad(a, n) == [k \in 1..n |-> IF k <= n - Len(a) THEN 1 ELSE a[k - (n - Len(a))]]

\* numpy broadcasting of an elementwise operation
Bc(a, b) ==
    IF a = Bad \/ b = Bad THEN Bad
    ELSE LET n  == Max(Len(a), Len(b))
             pa == Pad(a, n)
             pb == Pad(b, n)
         IN  IF \A k \in 1..n : pa[k] = pb[k] \/ pa[k] = 1 \/ pb[k] = 1
             THEN [k \in 1..n |-> IF pa[k] = 1 THEN pb[k] ELSE pa[k]]
             ELSE Bad

\* .T
Tr(a) == IF a = Bad THEN Bad ELSE [k \in 1..Len(a) |-> a[Len(a) + 1 - k]]

\* np.matmul of a matrix with a vector
MatMul(a, b) ==
    IF a = Bad \/ b = Bad THEN Bad
    ELSE IF a[2] = b[1] THEN <<a[1]>> ELSE Bad

\* np.tile(a, reps)
Tile(a, reps) ==
    IF a = Bad THEN Bad
    ELSE LET n == Max(Len(a), Len(reps))
         IN  [k \in 1..n |-> Pad(a, n)[k] * Pad(reps, n)[k]]

\* np.sum(a, axis=k) and logsumexp(a, axis=k), k counted from 0
SumAxis(a, k) ==
    IF a = Bad THEN Bad
    ELSE [j \in 1..(Len(a) - 1) |-> IF j <= k THEN a[j] ELSE a[j + 1]]

\* logsumexp([a, b], axis=0): the two arrays are stacked, so they must have
\* one shape
LogSumExp2(a, b) == IF a = Bad \/ b = Bad \/ a # b THEN Bad ELSE a

\* np.hstack of n arrays of the shape a
HStack(a, n) ==
    IF a = Bad THEN Bad
    ELSE IF Len(a) = 1 THEN <<n * a[1]>>
    ELSE [k \in 1..Len(a) |-> IF k = 2 THEN n * a[k] ELSE a[k]]

\* arr[mask] with a boolean mask of maskLen entries over n windows
ShFilter(n, maskLen) == IF n = maskLen THEN n ELSE -1

\* calc_x_given_prob, one window: reads is the shape of x[w], prob of prob[w]
ShXGivenProb(reads, prob) ==
    Tr(Bc(MatMul(reads, Tr(prob)), MatMul(reads, Tr(prob))))

\* (v * t_c.T).T, the idiom that spreads a vector over the reads
Spread(v, t_c) == Tr(Bc(v, Tr(t_c)))

\* init_mu_no_log, one window
ShInitMu(alpha, Lt, XH, XL, C) ==
    LET t_c  == <<alpha[1], C>>
        high == SumAxis(Bc(XH, Tr(Bc(Bc(alpha, Lt), Tr(t_c)))), 0)
        low  == SumAxis(Bc(XL, Tr(Bc(Bc(alpha, Lt), Tr(t_c)))), 0)
    IN  Bc(high, Bc(high, low))

\* log_likelihood, one window: the shape of b
ShLogLikelihood(alpha, Lt, XH, XL) ==
    IF XH = Bad \/ XL = Bad THEN Bad
    ELSE LET t_c == <<Lt[1], XH[1]>>
             a   == LogSumExp2(Bc(Spread(Lt, t_c), Bc(XH, t_c)),
                               Bc(Spread(Lt, t_c), Bc(XL, t_c)))
         IN  SumAxis(Bc(Spread(alpha, t_c), a), 0)

\* calc_z, one window
ShCalcZ(mus, alpha, Lt, C) ==
    LET mu_win    == Tile(mus, <<alpha[1], 1>>)
        Lt_win    == Tr(Tile(Lt, <<C, 1>>))
        alpha_win == Tr(Tile(alpha, <<C, 1>>))
        term      == Bc(Bc(mu_win, Lt_win), alpha_win)
        z_win     == Bc(term, term)
    IN  Bc(z_win, SumAxis(z_win, 0))

\* maximization over n windows
ShMaximization(z, n) ==
    LET new_alpha_shape == SumAxis(HStack(z, n), 1)
    IN  Bc(new_alpha_shape, <<>>)

\* calc_mu, one window
ShCalcMu(z, alpha, Lt, XH, XL, C) ==
    LET t_c      == <<alpha[1], C>>
        log_high == SumAxis(Bc(Bc(Spread(Lt, t_c), Bc(XH, t_c)), z), 0)
        log_low  == SumAxis(Bc(Bc(Spread(Lt, t_c), Bc(XL, t_c)), z), 0)
    IN  Bc(log_high, LogSumExp2(log_high, log_low))

Counts == {1, 2}
Dims == {1, 2, 3}

ShInit ==
    /\ \E W \in Counts, WL \in Counts, WH \in Counts, WLo \in Counts,
          C \in Dims, M \in Counts, MH \in Counts, MLo \in Counts,
          TL \in Dims, TA \in {0} \cup Dims, N \in Counts :
         sh = [phase |-> "new", W |-> W, WL |-> WL, WH |-> WH, WLo |-> WLo,
               C |-> C, M |-> M, MH |-> MH, MLo |-> MLo, TL |-> TL,
               TA |-> TA, N |-> N, XH |-> <<>>, XL |-> <<>>,
               alpha |-> <<>>, mu |-> <<>>, z |-> <<>>, new_alpha |-> <<>>,
               i |-> 0, stop |-> "none"]
    /\ mixtures = <<>>
    /\ lambda_t = <<>>
    /\ theta_high = <<>>
    /\ theta_low = <<>>
    /\ num_iterations = 0
    /\ convergence_criteria = 0
    /\ alpha_arg = None
    /\ self = NoEngine
    /\ mu = <<>>
    /\ new_alpha = <<>>
    /\ i = 0
    /\ pc = "shapes"
    /\ ret = None
    /\ hist = NoHist
    /\ run = 1
    /\ ret1 = None

numVars == <<mixtures, lambda_t, theta_high, theta_low, num_iterations,
             convergence_criteria, alpha_arg, self, mu, new_alpha, i, pc,
             ret, hist, run, ret1>>

\* __init__: the three masked arrays (lines 46-48), then calc_x_given_prob
ShConstruct ==
    /\ sh.phase = "new"
    /\ LET XH == ShXGivenProb(<<sh.C, sh.M>>, <<sh.MH>>)
           XL == ShXGivenProb(<<sh.C, sh.M>>, <<sh.MLo>>)
       IN  IF \/ ShFilter(sh.WL, sh.W) < 0
              \/ ShFilter(sh.WH, sh.W) < 0
              \/ ShFilter(sh.WLo, sh.W) < 0
              \/ XH = Bad
              \/ XL = Bad
           THEN sh' = [sh EXCEPT !.phase = "error"]
           ELSE sh' = [sh EXCEPT !.phase = "ready", !.XH = XH, !.XL = XL]
    /\ UNCHANGED numVars

\* em(): init_alpha and init_mu_no_log
ShEmStart ==
    /\ sh.phase = "ready"
    /\ LET alpha == IF sh.TA = 0 THEN <<sh.TL>> ELSE <<sh.TA>>
           mus   == ShInitMu(alpha, <<sh.TL>>, sh.XH, sh.XL, sh.C)
       IN  IF mus = Bad
           THEN sh' = [sh EXCEPT !.phase = "error"]
           ELSE sh' = [sh EXCEPT !.phase = "loop", !.alpha = alpha,
                                 !.mu = mus, !.i = 0]
    /\ UNCHANGED numVars

\* lines 154-157 of one iteration
ShIterate ==
    /\ sh.phase = "loop"
    /\ LET ll == ShLogLikelihood(sh.alpha, <<sh.TL>>, sh.XH, sh.XL)
           z  == ShCalcZ(sh.mu, sh.alpha, <<sh.TL>>, sh.C)
           na == ShMaximization(z, sh.W)
           mus == ShCalcMu(z, sh.alpha, <<sh.TL>>, sh.XH, sh.XL, sh.C)
       IN  IF ll = Bad \/ z = Bad \/ na = Bad \/ mus = Bad
           THEN sh' = [sh EXCEPT !.phase = "error"]
           ELSE sh' = [sh EXCEPT !.phase = "decide", !.z = z,
                                 !.new_alpha = na, !.mu = mus]
    /\ UNCHANGED numVars

\* line 159 with i = 0, or test_convergence answers False: lines 162-163
ShCommit ==
    /\ sh.phase = "decide"
    /\ IF sh.i # 0 /\ Bc(sh.new_alpha, sh.alpha) = Bad
       THEN sh' = [sh EXCEPT !.phase = "error"]
       ELSE sh' = [sh EXCEPT !.alpha = sh.new_alpha,
                       !.i = IF sh.i + 1 < sh.N THEN sh.i + 1 ELSE sh.i,
                       !.phase = IF sh.i + 1 < sh.N THEN "loop" ELSE "return",
                       !.stop = IF sh.i + 1 < sh.N THEN "none" ELSE "exhausted"]
    /\ UNCHANGED numVars

\* test_convergence answers True: break
ShBreak ==
    /\ sh.phase = "decide"
    /\ sh.i # 0
    /\ Bc(sh.new_alpha, sh.alpha) # Bad
    /\ sh' = [sh EXCEPT !.phase = "return", !.stop = "converged"]
    /\ UNCHANGED numVars

\* line 164
ShReturn ==
    /\ sh.phase = "return"
    /\ sh' = [sh EXCEPT !.phase = "returned"]
    /\ UNCHANGED numVars

ShNext ==
    \/ ShConstruct
    \/ ShEmStart
    \/ ShIterate
    \/ ShCommit
    \/ ShBreak
    \/ ShReturn

SpecShape == ShInit /\ [][ShNext]_vars

-----------------------------------------------------------------------------
(* Properties *)

InLoop == pc \in {"estep", "mstep", "mustep", "decide"}
AfterInit == pc \in {"estep", "mstep", "mustep", "decide", "return", "done"}
Converged == pc = "done" /\ hist.stop = "converged"
Exhausted == pc = "done" /\ hist.stop = "exhausted"

\* a vector of probabilities sums to 1, within one grid unit per entry
SumsToOne(v) == Abs(SeqSum(v) - SCALE) <= Len(v)

\* C1 as stated: when em() stops on the convergence test, the alpha it
\* returns, and leaves in self.alpha, is that iteration's candidate
\* new_alpha.
C1_ReturnsCandidate ==
    Converged => (ret[1] = new_alpha /\ self.alpha = new_alpha)

\* C1 as amended: when em() stops on the convergence test at iteration
\* i >= 1, the alpha it returns, and leaves in self.alpha, is the alpha the
\* candidate was compared against (the one current at the start of that
\* iteration); the candidate is dropped.
C1_ReturnsPrevious ==
    Converged =>
        /\ i >= 1
        /\ ret = <<hist.it_alpha, i>>
        /\ self.alpha = hist.it_alpha

C1_Witness == Converged /\ new_alpha # ret[1] /\ i >= 2

C3_AlphaSumsToOne ==
    /\ AfterInit => SumsToOne(self.alpha)
    /\ (pc \in {"mustep", "decide"}) => SumsToOne(new_alpha)

\* the retained reads hold methylated and unmethylated calls
MixedData ==
    /\ \E w \in DOMAIN self.x : \E r \in DOMAIN self.x[w] :
          \E j \in DOMAIN self.x[w][r] : self.x[w][r][j] = METHYLATED
    /\ \E w \in DOMAIN self.x : \E r \in DOMAIN self.x[w] :
          \E j \in DOMAIN self.x[w][r] : self.x[w][r][j] = UNMETHYLATED

HasZero(a) == a # None /\ \E t \in DOMAIN a : a[t] = 0

\* C4 as stated: with a supplied alpha that has a zero entry and data of a
\* mixed population, the alpha of the first M-step is a distribution in
\* which that entry is positive.
C4_LeavesBoundary ==
    (pc = "mustep" /\ hist.iters = 1 /\ HasZero(alpha_arg) /\ MixedData) =>
        /\ SumsToOne(new_alpha)
        /\ \A t \in DOMAIN alpha_arg : alpha_arg[t] = 0 => new_alpha[t] > 0

\* C4 as amended: with a supplied alpha that has a zero entry, the alpha of
\* every M-step is a distribution in which that entry is again exactly
\* zero, whatever the data: alpha stays at the boundary across the
\* iterations of em().
C4_StaysAtBoundary ==
    HasZero(alpha_arg) =>
        /\ (pc \in {"mustep", "decide"}) =>
              /\ SumsToOne(new_alpha)
              /\ \A t \in DOMAIN alpha_arg :
                    alpha_arg[t] = 0 => new_alpha[t] = 0
        /\ AfterInit =>
              \A t \in DOMAIN alpha_arg : alpha_arg[t] = 0 => self.alpha[t] = 0

C4_Witness ==
    /\ pc = "decide"
    /\ hist.iters >= 2
    /\ alpha_arg = <<SCALE, 0>>
    /\ MixedData
    /\ new_alpha = <<SCALE, 0>>

\* C5: after __init__ the retained windows are exactly the windows with a
\* call other than NOVAL, in the original order, and x, Lt, thetaH, thetaL
\* and the arrays computed from them hold the same windows at the same
\* indices.
C5_Filtered ==
    (pc \notin {"new", "error"}) =>
        /\ \E f \in [DOMAIN self.x -> DOMAIN mixtures] :
              /\ \A k \in DOMAIN self.x : \A l \in DOMAIN self.x :
                    k < l => f[k] < f[l]
              /\ {f[k] : k \in DOMAIN self.x}
                    = {w \in DOMAIN mixtures : Informative(mixtures[w])}
              /\ \A k \in DOMAIN self.x :
                    /\ self.x[k] = mixtures[f[k]]
                    /\ self.Lt[k] = lambda_t[f[k]]
                    /\ self.thetaH[k] = theta_high[f[k]]
                    /\ self.thetaL[k] = theta_low[f[k]]
        /\ Len(self.Lt) = Len(self.x)
        /\ Len(self.thetaH) = Len(self.x)
        /\ Len(self.thetaL) = Len(self.x)
        /\ \A k \in DOMAIN self.x :
              /\ Len(self.thetaH[k]) = Len(self.x[k][1])
              /\ Len(self.thetaL[k]) = Len(self.x[k][1])
        /\ DOMAIN self.x_given_H = DOMAIN self.x
        /\ DOMAIN self.x_given_L = DOMAIN self.x
        /\ \A k \in DOMAIN self.x :
              /\ DOMAIN self.x_given_H[k] = DOMAIN self.x[k]
              /\ DOMAIN self.x_given_L[k] = DOMAIN self.x[k]
        /\ self.z # <<>> => DOMAIN self.z = DOMAIN self.x
        /\ mu # <<>> => DOMAIN mu = DOMAIN self.x

C5_Witness ==
    /\ pc = "ready"
    /\ Len(mixtures) = 2
    /\ ~Informative(mixtures[1])
    /\ Informative(mixtures[2])
    /\ self.x = <<mixtures[2]>>
    /\ self.thetaH = <<theta_high[2]>>

\* C6: in every iteration, for every window and read, the entries of the
\* read's column of z sum to 1 over the cell types.
C6_ColumnsSumToOne ==
    \A w \in DOMAIN self.z : \A r \in DOMAIN self.z[w][1] :
        SumsToOne([t \in DOMAIN self.z[w] |-> self.z[w][t][r]])

C6_Witness ==
    /\ pc = "mstep"
    /\ hist.iters >= 2
    /\ \E w \in DOMAIN self.z :
          /\ Len(self.z[w][1]) >= 2
          /\ self.z[w][1][1] # self.z[w][1][2]
          /\ self.z[w][1][1] > 0
          /\ self.z[w][2][1] > 0

\* C7: the convergence test is not evaluated in iteration 0 and is evaluated
\* in every later iteration; with the threshold 10.0 and
\* num_iterations >= 2, em() stops on the test in iteration 1.
C7_TestFromSecondIteration ==
    /\ InLoop => hist.tested = 1..(i - 1)
    /\ (pc \in {"return", "done"} /\ hist.iters >= 1) => hist.tested = 1..i
    /\ (pc = "done" /\ convergence_criteria = 10 * SCALE
            /\ num_iterations >= 2) =>
          /\ hist.stop = "converged"
          /\ ret[2] = 1

C7_Witness ==
    /\ pc = "done"
    /\ convergence_criteria = 10 * SCALE
    /\ num_iterations >= 3
    /\ ret[2] = 1
    /\ alpha_arg = None

\* C8: a second engine built from the same arrays, settings and supplied
\* alpha returns what the first returned.
C8_SameOutput ==
    (run = 2 /\ pc = "done" /\ alpha_arg # None) => ret = ret1

C8_Witness ==
    /\ run = 2
    /\ pc = "done"
    /\ alpha_arg # None
    /\ ret = ret1
    /\ ret[2] >= 2
    /\ \E w \in DOMAIN lambda_t : lambda_t[w][1] = SCALE - pseudocount

\* C10: when em() has returned after at least one iteration, self.z is
\* calc_z of the mu and alpha that were current at the start of the last
\* iteration; on a converged stop that alpha is the returned one, on an
\* exhausted stop the returned alpha is the M-step of that z.
C10_StoredZ ==
    (pc = "done" /\ hist.iters >= 1) =>
        /\ self.z = calc_z(hist.it_mu, hist.it_alpha, self.Lt)
        /\ hist.stop = "converged" => ret[1] = hist.it_alpha
        /\ hist.stop = "exhausted" =>
              ret[1] = maximization(
                          calc_z(hist.it_mu, hist.it_alpha, self.Lt), self.c)

C10_Witness ==
    /\ Exhausted
    /\ hist.iters >= 2
    /\ ret[1] # hist.it_alpha
    /\ self.z = calc_z(hist.it_mu, hist.it_alpha, self.Lt)

\* the arrays handed to the engine disagree on a count
Mismatched ==
    \/ sh.WL # sh.W
    \/ sh.WH # sh.W
    \/ sh.WLo # sh.W
    \/ sh.MH # sh.M
    \/ sh.MLo # sh.M
    \/ (sh.TA # 0 /\ sh.TA # sh.TL)

\* C9: with mismatched arrays the engine ends in an error during __init__
\* or em() and never returns a result.
C9_MismatchRaises ==
    (sh.phase = "returned") => ~Mismatched

\* arrays that agree are never refused
ShapesAgreeRun ==
    (sh.phase = "error") => Mismatched

=============================================================================
